---- MODULE Spec2Model ----
(***************************************************************************)
(* Model of the soundimals-demo WebGL page script: the viewport fitter     *)
(* (desktop and mobile strategies, iOS keyboard watcher), the banner       *)
(* display and the runtime load bootstrap.                                 *)
(*                                                                         *)
(* Two revisions of the script are in the repository and both are          *)
(* modelled; the variable revision says which one the page runs:           *)
(*   "scripts"  - src/TemplateData/scripts/scripts.js                      *)
(*   "part_000" - src/unnamed/part_000                                     *)
(*                                                                         *)
(* JavaScript numbers are modelled as exact rationals extended with NaN    *)
(* and the two infinities (IEEE rounding of the last bit is not modelled). *)
(* The conversions the DOM applies are modelled by what they do: the       *)
(* canvas backing size is an integer attribute (the fraction is dropped),  *)
(* and a CSS length that is not a finite non-negative number is rejected.  *)
(***************************************************************************)
EXTENDS Integers, Sequences, FiniteSets, TLC

-----------------------------------------------------------------------------
(* JavaScript Number: [n, d] with d > 0 a rational in lowest terms;        *)
(* d = 0 is NaN (n = 0), +Infinity (n = 1) or -Infinity (n = -1).          *)

Abs(a) == IF a < 0 THEN -a ELSE a

Sign(a) == IF a < 0 THEN -1 ELSE IF a > 0 THEN 1 ELSE 0

RECURSIVE GCD(_, _)
GCD(a, b) == IF b = 0 THEN a ELSE GCD(b, a % b)

Num(n, d) ==
  LET g == GCD(Abs(n), d)
  IN  [n |-> n \div g, d |-> d \div g]

I(k) == [n |-> k, d |-> 1]

NaN == [n |-> 0, d |-> 0]

Infinity(s) == [n |-> s, d |-> 0]

IsNaN(x) == x.d = 0 /\ x.n = 0

IsFinite(x) == x.d > 0

JMul(x, y) ==
  IF IsNaN(x) \/ IsNaN(y) THEN NaN
  ELSE IF ~IsFinite(x) \/ ~IsFinite(y)
       THEN IF x.n = 0 \/ y.n = 0 THEN NaN ELSE Infinity(Sign(x.n) * Sign(y.n))
       ELSE Num(x.n * y.n, x.d * y.d)

JDiv(x, y) ==
  IF IsNaN(x) \/ IsNaN(y) THEN NaN
  ELSE IF ~IsFinite(x)
       THEN IF ~IsFinite(y) THEN NaN
            ELSE Infinity(Sign(x.n) * (IF y.n < 0 THEN -1 ELSE 1))
       ELSE IF ~IsFinite(y) THEN I(0)
       ELSE IF y.n = 0
            THEN IF x.n = 0 THEN NaN ELSE Infinity(Sign(x.n))
            ELSE Num(Sign(y.n) * x.n * y.d, x.d * Abs(y.n))

\* x < y; false whenever an operand is NaN
JLt(x, y) ==
  IF IsNaN(x) \/ IsNaN(y) THEN FALSE
  ELSE IF ~IsFinite(x) THEN x.n < 0 /\ ~(~IsFinite(y) /\ y.n < 0)
  ELSE IF ~IsFinite(y) THEN y.n > 0
  ELSE x.n * y.d < y.n * x.d

JGt(x, y) == JLt(y, x)

\* Math.min of two numbers
JMin(x, y) ==
  IF IsNaN(x) \/ IsNaN(y) THEN NaN
  ELSE IF JLt(y, x) THEN y ELSE x

\* The integer part of a finite number, rounded toward zero
Trunc(x) == IF x.n >= 0 THEN x.n \div x.d ELSE -((-x.n) \div x.d)

\* Setting canvas.width / canvas.height: the attribute is an unsigned long
\* that reflects a non-negative integer; NaN and infinities become 0, the
\* fraction is dropped, and a value out of range falls back to the
\* element's default (300 for the width, 150 for the height).
ToCanvasSize(x, default) ==
  IF ~IsFinite(x) THEN 0
  ELSE IF Trunc(x) < 0 THEN default
  ELSE Trunc(x)

\* Setting style.width / style.height to `${x}px`: a declaration that is not
\* a valid length (NaNpx, Infinitypx, a negative length) is ignored.
CssUnset == [set |-> FALSE, px |-> I(0)]

SetCssLength(old, x) ==
  IF IsFinite(x) /\ x.n >= 0 THEN [set |-> TRUE, px |-> x] ELSE old

-----------------------------------------------------------------------------
(* Program constants *)

DesignWidth == 750
DesignHeight == 1334
KeyboardOpenThreshold == 150
KeyboardClosedThreshold == 50

IOSBackingScale == 2
AndroidBackingScaleNum == 17
AndroidBackingScaleDen == 5

-----------------------------------------------------------------------------
(* Bounds of the model *)

MaxPendingFits == 1
MaxBanners == 3

-----------------------------------------------------------------------------
(* Device detection *)

UserAgents == {"Desktop", "Android", "iPhone"}

IsMobileUA(ua) == ua \in {"iPhone", "Android"}

\* part_000 never sets canvas.isIOS, so it reads as undefined (falsy) there
IsIOSUA(rev, ua) == rev = "scripts" /\ ua = "iPhone"

IsAndroidUA(rev, ua) == rev = "scripts" /\ ua = "Android"

-----------------------------------------------------------------------------
(* Desktop fit strategy *)

AspectRatio(w, h) == JDiv(I(w), I(h))

\* DesktopLimit with the height-limited width taken from the window, not the ratio
DesktopLimitNoRatio(c, windowWidth, windowHeight) ==
  LET aspectRatio == AspectRatio(c.originalWidth, c.originalHeight)
  IN  IF JGt(JDiv(I(windowWidth), I(windowHeight)), aspectRatio)
      THEN [canvasWidth |-> JMin(I(windowWidth), I(c.originalWidth)),
            canvasHeight |-> JMin(I(windowHeight), I(c.originalHeight))]
      ELSE LET canvasWidth == JMin(I(windowWidth), I(c.originalWidth))
           IN  [canvasWidth |-> canvasWidth,
                canvasHeight |-> JDiv(canvasWidth, aspectRatio)]

\* DesktopLimit without the Math.min cap at the design size
DesktopLimitUncapped(c, windowWidth, windowHeight) ==
  LET aspectRatio == AspectRatio(c.originalWidth, c.originalHeight)
  IN  IF JGt(JDiv(I(windowWidth), I(windowHeight)), aspectRatio)
      THEN [canvasWidth |-> JMul(I(windowHeight), aspectRatio),
            canvasHeight |-> I(windowHeight)]
      ELSE [canvasWidth |-> I(windowWidth),
            canvasHeight |-> JDiv(I(windowWidth), aspectRatio)]

\* The limiting dimension, capped at the design size; the other from the ratio
DesktopLimit(c, windowWidth, windowHeight) ==
  LET aspectRatio == AspectRatio(c.originalWidth, c.originalHeight)
  IN  IF JGt(JDiv(I(windowWidth), I(windowHeight)), aspectRatio)
      THEN LET canvasHeight == JMin(I(windowHeight), I(c.originalHeight))
           IN  [canvasWidth |-> JMul(canvasHeight, aspectRatio),
                canvasHeight |-> canvasHeight]
      ELSE LET canvasWidth == JMin(I(windowWidth), I(c.originalWidth))
           IN  [canvasWidth |-> canvasWidth,
                canvasHeight |-> JDiv(canvasWidth, aspectRatio)]

EnforceMinWidth(c, size) ==
  LET aspectRatio == AspectRatio(c.originalWidth, c.originalHeight)
      minWidth == JDiv(I(c.originalWidth), I(2))
  IN  IF JLt(size.canvasWidth, minWidth)
      THEN [canvasWidth |-> minWidth, canvasHeight |-> JDiv(minWidth, aspectRatio)]
      ELSE size

EnforceMinHeight(c, size) ==
  LET aspectRatio == AspectRatio(c.originalWidth, c.originalHeight)
      minHeight == JDiv(I(c.originalHeight), I(2))
  IN  IF JLt(size.canvasHeight, minHeight)
      THEN [canvasWidth |-> JMul(minHeight, aspectRatio), canvasHeight |-> minHeight]
      ELSE size

\* DesktopSize without the half-design minimum
DesktopSizeUnclamped(c, windowWidth, windowHeight) ==
  DesktopLimit(c, windowWidth, windowHeight)

DesktopSize(c, windowWidth, windowHeight) ==
  EnforceMinHeight(c, EnforceMinWidth(c, DesktopLimit(c, windowWidth, windowHeight)))

-----------------------------------------------------------------------------
(* Shared apply / center routine *)

BackingScale(c) ==
  IF c.isIOS THEN I(IOSBackingScale)
  ELSE Num(AndroidBackingScaleNum, AndroidBackingScaleDen)

\* The canvas after applyCanvasDimensions(size.canvasWidth, size.canvasHeight)
ApplyCanvasDimensions(rev, c, size) ==
  LET backed ==
        IF c.isMobileDevice
        THEN [c EXCEPT
                !.width = ToCanvasSize(JMul(size.canvasWidth, BackingScale(c)),
                                       300),
                !.height = ToCanvasSize(JMul(size.canvasHeight, BackingScale(c)),
                                        150)]
        ELSE c
  IN  [backed EXCEPT
         !.style = [width |-> SetCssLength(c.style.width, size.canvasWidth),
                    height |-> SetCssLength(c.style.height, size.canvasHeight),
                    position |-> "absolute",
                    left |-> "50%",
                    top |-> "50%",
                    transform |-> "translate(-50%, -50%)",
                    backgroundColor |->
                      IF rev = "scripts" THEN "#000" ELSE c.style.backgroundColor]]

\* The container's style after applyCanvasDimensions (scripts.js, mobile only)
ApplyContainerStyle(rev, c, cs) ==
  IF rev = "scripts" /\ c.isMobileDevice
  THEN [cs EXCEPT !.position = "fixed", !.top = "0", !.left = "0",
                  !.width = "100vw", !.height = "100vh",
                  !.margin = "0", !.padding = IF c.isIOS THEN "env(safe-area-inset)" ELSE "0",
                  !.backgroundColor = "#000", !.overflow = "hidden"]
  ELSE cs

-----------------------------------------------------------------------------
(* Mobile fit strategy *)

\* The viewport adjustMobileCanvasSize measures: the visual viewport when
\* there is one, else the window; on iOS less the safe-area insets and, until
\* canvas.initialScreenHeight is truthy, capped at the screen size.
MeasureViewport(c, win, sa) ==
  LET live == IF win.hasVisualViewport
              THEN [windowWidth |-> win.vvWidth, windowHeight |-> win.vvHeight]
              ELSE [windowWidth |-> win.innerWidth, windowHeight |-> win.innerHeight]
      safe == [windowWidth |-> live.windowWidth - sa.left - sa.right,
               windowHeight |-> live.windowHeight - sa.top - sa.bottom]
      IntMin(a, b) == IF b < a THEN b ELSE a
  IN  IF ~c.isIOS THEN live
      ELSE IF c.initialScreenHeight = 0
           THEN [windowWidth |-> IntMin(safe.windowWidth, win.screenWidth),
                 windowHeight |-> IntMin(safe.windowHeight, win.screenHeight)]
           ELSE safe

\* if (!canvas.initialScreenHeight) { store the screen and viewport sizes }
\* (an undefined property and a stored 0 are both falsy)
SnapshotBaseline(c, win, m) ==
  IF c.initialScreenHeight = 0
  THEN [c EXCEPT !.initialScreenHeight = win.screenHeight,
                 !.initialScreenWidth = win.screenWidth,
                 !.initialWindowHeight = m.windowHeight,
                 !.initialWindowWidth = m.windowWidth]
  ELSE c

\* IsKeyboardOpen with the threshold itself counted as open
IsKeyboardOpenAtThreshold(c, m) ==
  c.initialWindowHeight - m.windowHeight >= KeyboardOpenThreshold

IsKeyboardOpen(c, m) ==
  c.initialWindowHeight - m.windowHeight > KeyboardOpenThreshold

\* The viewport the fit is computed from
FitViewport(c, m) ==
  IF IsKeyboardOpen(c, m)
  THEN [windowWidth |-> c.initialWindowWidth, windowHeight |-> c.initialWindowHeight]
  ELSE m

\* scripts.js: compare the screen's aspect ratio with the design's
MobileSizeScripts(c, v) ==
  LET aspectRatio == AspectRatio(DesignWidth, DesignHeight)
      screenAspectRatio == JDiv(I(v.windowWidth), I(v.windowHeight))
  IN  IF JGt(screenAspectRatio, aspectRatio)
      THEN [canvasWidth |-> JMul(I(v.windowHeight), aspectRatio),
            canvasHeight |-> I(v.windowHeight)]
      ELSE [canvasWidth |-> I(v.windowWidth),
            canvasHeight |-> JDiv(I(v.windowWidth), aspectRatio)]

\* part_000: the ratio is read back from the canvas backing size
MobileSizePart000(c, v) ==
  LET aspectRatio == AspectRatio(c.width, c.height)
      canvasHeight == I(v.windowHeight)
      canvasWidth == JMul(canvasHeight, aspectRatio)
  IN  IF JGt(canvasWidth, I(v.windowWidth))
      THEN [canvasWidth |-> I(v.windowWidth),
            canvasHeight |-> JDiv(I(v.windowWidth), aspectRatio)]
      ELSE [canvasWidth |-> canvasWidth, canvasHeight |-> canvasHeight]

MobileSize(rev, c, v) ==
  IF rev = "scripts" THEN MobileSizeScripts(c, v) ELSE MobileSizePart000(c, v)

\* The container's style after the keyboard branch of adjustMobileCanvasSize
KeyboardContainerStyle(c, m, cs) ==
  IF IsKeyboardOpen(c, m) /\ c.isIOS
  THEN [cs EXCEPT !.position = "fixed", !.top = "0", !.left = "0",
                  !.transform = "none"]
  ELSE cs

\* One run of adjustMobileCanvasSize: the new canvas, the new container
\* style and the values of the function's locals.
AdjustMobileCanvasSize(rev, c, cs, win, sa) ==
  LET m == MeasureViewport(c, win, sa)
      c1 == SnapshotBaseline(c, win, m)
      v == FitViewport(c1, m)
      c2 == [c1 EXCEPT !.originalWidth = DesignWidth, !.originalHeight = DesignHeight]
      size == MobileSize(rev, c2, v)
      c3 == ApplyCanvasDimensions(rev, c2, size)
  IN  [canvas |-> c3,
       container |-> ApplyContainerStyle(rev, c3, KeyboardContainerStyle(c1, m, cs)),
       fit |-> [strategy |-> "mobile",
                measuredWidth |-> m.windowWidth,
                measuredHeight |-> m.windowHeight,
                baselineWidth |-> c1.initialWindowWidth,
                baselineHeight |-> c1.initialWindowHeight,
                isKeyboardOpen |-> IsKeyboardOpen(c1, m),
                previousKeyboardOpen |-> FALSE,
                windowWidth |-> v.windowWidth,
                windowHeight |-> v.windowHeight,
                canvasWidth |-> size.canvasWidth,
                canvasHeight |-> size.canvasHeight]]

\* A desktop fit that never makes the canvas larger than it already is
AdjustDesktopCanvasSizeNeverGrows(rev, c, cs, win) ==
  LET fitted == DesktopSize(c, win.innerWidth, win.innerHeight)
      size == IF c.style.width.set /\ JLt(c.style.width.px, fitted.canvasWidth)
              THEN [canvasWidth |-> c.style.width.px,
                    canvasHeight |-> c.style.height.px]
              ELSE fitted
      c1 == ApplyCanvasDimensions(rev, c, size)
  IN  [canvas |-> c1,
       container |-> ApplyContainerStyle(rev, c1, cs),
       fit |-> [strategy |-> "desktop",
                measuredWidth |-> win.innerWidth,
                measuredHeight |-> win.innerHeight,
                baselineWidth |-> 0,
                baselineHeight |-> 0,
                isKeyboardOpen |-> FALSE,
                previousKeyboardOpen |-> FALSE,
                windowWidth |-> win.innerWidth,
                windowHeight |-> win.innerHeight,
                canvasWidth |-> size.canvasWidth,
                canvasHeight |-> size.canvasHeight]]

\* One run of adjustDesktopCanvasSize
AdjustDesktopCanvasSize(rev, c, cs, win) ==
  LET size == DesktopSize(c, win.innerWidth, win.innerHeight)
      c1 == ApplyCanvasDimensions(rev, c, size)
  IN  [canvas |-> c1,
       container |-> ApplyContainerStyle(rev, c1, cs),
       fit |-> [strategy |-> "desktop",
                measuredWidth |-> win.innerWidth,
                measuredHeight |-> win.innerHeight,
                baselineWidth |-> 0,
                baselineHeight |-> 0,
                isKeyboardOpen |-> FALSE,
                previousKeyboardOpen |-> FALSE,
                windowWidth |-> win.innerWidth,
                windowHeight |-> win.innerHeight,
                canvasWidth |-> size.canvasWidth,
                canvasHeight |-> size.canvasHeight]]

-----------------------------------------------------------------------------
(* iOS keyboard visibility watcher (scripts.js only) *)

\* A watcher that takes the keyboard for closed at the open threshold
WatcherStepOneThreshold(kv, heightDiff) ==
  IF heightDiff > KeyboardOpenThreshold /\ ~kv THEN "lock"
  ELSE IF heightDiff <= KeyboardOpenThreshold /\ kv THEN "unlock"
  ELSE "none"

\* A watcher that unlocks on every small drop, whatever it did before
WatcherStepUnlocksAgain(kv, heightDiff) ==
  IF heightDiff > KeyboardOpenThreshold /\ ~kv THEN "lock"
  ELSE IF heightDiff <= KeyboardClosedThreshold THEN "unlock"
  ELSE "none"

\* What one run of a watcher listener does, given the measured drop
WatcherStep(kv, heightDiff) ==
  IF heightDiff > KeyboardOpenThreshold /\ ~kv THEN "lock"
  ELSE IF heightDiff <= KeyboardClosedThreshold /\ kv THEN "unlock"
  ELSE "none"

Px(k) == ToString(k) \o "px"

LockContainerStyle(cs, ovh) ==
  [cs EXCEPT !.position = "fixed", !.top = "0", !.left = "0", !.width = "100vw",
             !.height = Px(ovh), !.transform = "none", !.overflow = "hidden"]

LockCanvasStyle(st) ==
  [st EXCEPT !.position = "absolute", !.top = "50%", !.left = "50%",
             !.transform = "translate(-50%, -50%)"]

OrElse(a, b) == IF a = "" THEN b ELSE a

UnlockContainerStyle(cs, orig) ==
  [cs EXCEPT !.position = OrElse(orig.position, "fixed"),
             !.top = OrElse(orig.top, "0"),
             !.left = OrElse(orig.left, "0"),
             !.transform = OrElse(orig.transform, "none"),
             !.height = "100vh"]

-----------------------------------------------------------------------------
(* Environment: the window sizes and viewports the browser may report *)

DesktopWidths == {0, 200, 375, 500, 750, 1000, 1600}
DesktopHeights == {0, 300, 667, 900, 1334, 2000}

\* <<width, height>>: portrait with the keyboard hidden, drops of 50, 150
\* and 200 px, the rotated viewport and an empty viewport
MobileViewports ==
  {<<400, 800>>, <<400, 750>>, <<400, 650>>, <<400, 600>>, <<800, 400>>, <<0, 0>>}

Screens == {<<400, 800>>, <<0, 0>>}

NoInsets == [top |-> 0, bottom |-> 0, left |-> 0, right |-> 0]

SafeAreas == {NoInsets, [top |-> 47, bottom |-> 34, left |-> 0, right |-> 0]}

DesktopEnvironments ==
  {[innerWidth |-> w, innerHeight |-> h, hasVisualViewport |-> FALSE,
    vvWidth |-> 0, vvHeight |-> 0, screenWidth |-> 1600, screenHeight |-> 2000]
     : w \in DesktopWidths, h \in DesktopHeights}

FullViewport == <<400, 800>>

\* With a visual viewport: it equals the layout viewport, or (the on-screen
\* keyboard overlaying the page) it is the full layout viewport cut short
MobileEnvironments ==
  {[innerWidth |-> i[1], innerHeight |-> i[2], hasVisualViewport |-> FALSE,
    vvWidth |-> 0, vvHeight |-> 0, screenWidth |-> s[1], screenHeight |-> s[2]]
     : i \in MobileViewports, s \in Screens}
  \cup
  {[innerWidth |-> p[1][1], innerHeight |-> p[1][2], hasVisualViewport |-> TRUE,
    vvWidth |-> p[2][1], vvHeight |-> p[2][2], screenWidth |-> s[1], screenHeight |-> s[2]]
     : p \in {q \in MobileViewports \X MobileViewports :
                \/ q[2] = q[1]
                \/ q[1] = FullViewport /\ q[2][1] = q[1][1] /\ q[2][2] < q[1][2]},
       s \in Screens}

Environments(ua) == IF IsMobileUA(ua) THEN MobileEnvironments ELSE DesktopEnvironments

\* The safe-area insets lie inside the viewport they are insets of
InsetsFit(win, sa) ==
  LET w == IF win.hasVisualViewport THEN win.vvWidth ELSE win.innerWidth
      h == IF win.hasVisualViewport THEN win.vvHeight ELSE win.innerHeight
  IN  sa.left + sa.right <= w /\ sa.top + sa.bottom <= h

InsetsOf(rev, ua, win) ==
  IF IsIOSUA(rev, ua) THEN {sa \in SafeAreas : InsetsFit(win, sa)} ELSE {NoInsets}

\* The device keeps its screen, its visual-viewport support and its insets
SameDevice(win, sa, e) ==
  /\ e.hasVisualViewport = win.hasVisualViewport
  /\ e.screenWidth = win.screenWidth
  /\ e.screenHeight = win.screenHeight
  /\ InsetsFit(e, sa)

-----------------------------------------------------------------------------
(* State *)

VARIABLES
  revision,                \* which revision of the script the page runs
  userAgent,               \* navigator.userAgent, by device class
  window,                  \* innerWidth/Height, visualViewport, screen
  safeArea,                \* the --sat, --sab, --sal, --sar insets
  readyState,              \* "loading", "interactive" (DOMContentLoaded), "complete" (load)
  canvas,                  \* #unity-canvas: backing size, ad-hoc fields, style
  container,               \* #unity-container's inline style
  body,                    \* document.body classes, body and html overflow
  keyboardVisible,         \* the iOS watcher's flag
  originalViewportHeight,  \* the iOS watcher's baseline
  originalContainerStyles, \* the container style the watcher saved
  pendingFits,             \* setTimeout(adjustMobileCanvasSize, ...) not yet run
  fit,                     \* the locals of the last fit
  watch,                   \* the locals of the last watcher listener run
  warningBanner,           \* #unity-warning: children and style.display
  bannerTimers,            \* pending 5 s removal timers, oldest first
  nextBanner,              \* identity of the next message div
  loadingBar,              \* #unity-loading-bar style
  progressBarFull,         \* #unity-progress-bar-full style.width, in percent
  script,                  \* the loader script tag
  unity,                   \* the createUnityInstance promise
  instantiations,          \* calls of createUnityInstance
  alerts,                  \* messages shown by alert()
  preloadLinks             \* <link rel=preload> tags added

envVars == <<revision, userAgent, window, safeArea>>

fitVars == <<canvas, container, body, keyboardVisible, originalViewportHeight,
             originalContainerStyles, pendingFits, fit, watch>>

bannerVars == <<warningBanner, bannerTimers, nextBanner>>

loadVars == <<loadingBar, progressBarFull, script, unity, instantiations, alerts>>

vars == <<envVars, readyState, fitVars, bannerVars, loadVars, preloadLinks>>

Revisions == {"scripts", "part_000"}

NoStyle ==
  [position |-> "", top |-> "", left |-> "", width |-> "", height |-> "",
   transform |-> "", overflow |-> "", margin |-> "", padding |-> "",
   backgroundColor |-> ""]

SavedStyles(cs) ==
  [position |-> cs.position, top |-> cs.top, left |-> cs.left,
   transform |-> cs.transform, height |-> cs.height]

NoCanvasStyle ==
  [width |-> CssUnset, height |-> CssUnset, position |-> "", left |-> "",
   top |-> "", transform |-> "", backgroundColor |-> ""]

NoFit ==
  [strategy |-> "none", measuredWidth |-> 0, measuredHeight |-> 0,
   baselineWidth |-> 0, baselineHeight |-> 0, isKeyboardOpen |-> FALSE,
   previousKeyboardOpen |-> FALSE, windowWidth |-> 0, windowHeight |-> 0, canvasWidth |-> I(0), canvasHeight |-> I(0)]

\* The canvas element before the script has touched it (a canvas without
\* width and height attributes is 300 by 150)
MarkupCanvas ==
  [width |-> 300, height |-> 150,
   originalWidth |-> 0, originalHeight |-> 0,
   isMobileDevice |-> FALSE, isIOS |-> FALSE, isAndroid |-> FALSE,
   initialScreenHeight |-> 0, initialScreenWidth |-> 0,
   initialWindowHeight |-> 0, initialWindowWidth |-> 0,
   style |-> NoCanvasStyle]

\* The page as the browser hands it to the script; firstBanner is the identity
\* the first message div will get
InitFrom(firstBanner) ==
  /\ revision \in Revisions
  /\ userAgent \in UserAgents
  /\ window \in Environments(userAgent)
  /\ safeArea \in InsetsOf(revision, userAgent, window)
  /\ readyState = "loading"
  /\ canvas = MarkupCanvas
  /\ container = NoStyle
  /\ body = [classes |-> {}, overflow |-> "", htmlOverflow |-> ""]
  /\ keyboardVisible = FALSE
  /\ originalViewportHeight = 0
  /\ originalContainerStyles = SavedStyles(NoStyle)
  /\ pendingFits = 0
  /\ fit = NoFit
  /\ watch = [heightDiff |-> 0, did |-> "none"]
  /\ warningBanner = [children |-> <<>>, display |-> ""]
  /\ bannerTimers = <<>>
  /\ nextBanner = firstBanner
  /\ loadingBar = [display |-> "", visibility |-> ""]
  /\ progressBarFull = CssUnset
  /\ script = "none"
  /\ unity = "none"
  /\ instantiations = 0
  /\ alerts = <<>>
  /\ preloadLinks = 0

Init == InitFrom(1)

\* The locals of a fit, with what the fit before it decided about the keyboard
Observed(f) == [f EXCEPT !.previousKeyboardOpen = fit.isKeyboardOpen]

\* InitializeDOM has run, so the listeners of the active strategy are installed
DomInitialized ==
  IF revision = "scripts" THEN readyState # "loading" ELSE readyState = "complete"

-----------------------------------------------------------------------------
(* Initialization *)

\* An InitializeDOM that takes every user agent for a mobile one
InitialCanvasAlwaysMobile ==
  [MarkupCanvas EXCEPT
     !.width = DesignWidth, !.height = DesignHeight,
     !.originalWidth = DesignWidth, !.originalHeight = DesignHeight,
     !.isMobileDevice = TRUE,
     !.isIOS = IsIOSUA(revision, userAgent),
     !.isAndroid = IsAndroidUA(revision, userAgent)]

\* The canvas InitializeDOM hands to setupMobileCanvas / setupDesktopCanvas
InitialCanvas ==
  [MarkupCanvas EXCEPT
     !.width = DesignWidth, !.height = DesignHeight,
     !.originalWidth = DesignWidth, !.originalHeight = DesignHeight,
     !.isMobileDevice = IsMobileUA(userAgent),
     !.isIOS = IsIOSUA(revision, userAgent),
     !.isAndroid = IsAndroidUA(revision, userAgent)]

InitializeDOM ==
  LET c == InitialCanvas
      r == IF c.isMobileDevice
           THEN AdjustMobileCanvasSize(revision, c, container, window, safeArea)
           ELSE AdjustDesktopCanvasSize(revision, c, container, window)
  IN  /\ canvas' = r.canvas
      /\ container' = r.container
      /\ fit' = Observed(r.fit)
      /\ originalViewportHeight' =
           IF c.isIOS THEN window.innerHeight ELSE originalViewportHeight
      /\ originalContainerStyles' =
           IF c.isIOS THEN SavedStyles(container) ELSE originalContainerStyles
      /\ UNCHANGED <<body, keyboardVisible, pendingFits, watch>>

\* loadUnityGame up to appending the loader script tag
LoadUnityGame ==
  /\ loadingBar' = [display |-> "block",
                    visibility |-> IF revision = "scripts" THEN "visible"
                                   ELSE loadingBar.visibility]
  /\ script' = "loading"
  /\ UNCHANGED <<progressBarFull, unity, instantiations, alerts>>

DOMContentLoaded ==
  /\ readyState = "loading"
  /\ readyState' = "interactive"
  /\ IF revision = "scripts"
     THEN InitializeDOM /\ preloadLinks' = 2
     ELSE UNCHANGED <<fitVars, preloadLinks>>
  /\ UNCHANGED <<envVars, bannerVars, loadVars>>

Load ==
  /\ readyState = "interactive"
  /\ readyState' = "complete"
  /\ IF revision = "scripts" THEN UNCHANGED fitVars ELSE InitializeDOM
  /\ LoadUnityGame
  /\ UNCHANGED <<envVars, bannerVars, preloadLinks>>

-----------------------------------------------------------------------------
(* Resize, orientation and timer events.  One action is one event dispatch:  *)
(* the browser has updated the sizes, then every listener runs in the order *)
(* it was registered.                                                       *)

\* A watcher listener that measured heightDiff, run after the fit r
RunWatcher(r, heightDiff) ==
  LET did == WatcherStep(keyboardVisible, heightDiff)
  IN  /\ did = "unlock" => pendingFits < MaxPendingFits
      /\ watch' = [heightDiff |-> heightDiff, did |-> did]
      /\ keyboardVisible' = CASE did = "lock" -> TRUE
                               [] did = "unlock" -> FALSE
                               [] OTHER -> keyboardVisible
      /\ container' = CASE did = "lock" ->
                              LockContainerStyle(r.container, originalViewportHeight)
                         [] did = "unlock" ->
                              UnlockContainerStyle(r.container, originalContainerStyles)
                         [] OTHER -> r.container
      /\ canvas' = IF did = "lock"
                   THEN [r.canvas EXCEPT !.style = LockCanvasStyle(@)]
                   ELSE r.canvas
      /\ body' = CASE did = "lock" ->
                         [classes |-> body.classes \cup {"ios-keyboard-open"},
                          overflow |-> "hidden", htmlOverflow |-> "hidden"]
                    [] did = "unlock" ->
                         [classes |-> body.classes \ {"ios-keyboard-open"},
                          overflow |-> "", htmlOverflow |-> ""]
                    [] OTHER -> body
      /\ pendingFits' = IF did = "unlock" THEN pendingFits + 1 ELSE pendingFits

\* The fit alone, with no further listener
RunFit(r) ==
  /\ canvas' = r.canvas
  /\ container' = r.container
  /\ fit' = Observed(r.fit)

\* window 'resize'
WindowResize ==
  \E e \in Environments(userAgent) :
    LET sa == safeArea IN
      /\ DomInitialized
      /\ SameDevice(window, safeArea, e)
      /\ window' = e
      /\ IF ~canvas.isMobileDevice
         THEN /\ RunFit(AdjustDesktopCanvasSize(revision, canvas, container, e))
              /\ UNCHANGED <<body, keyboardVisible, pendingFits, watch>>
         ELSE LET r == AdjustMobileCanvasSize(revision, canvas, container, e, sa)
              IN  IF canvas.isIOS
                  THEN /\ fit' = Observed(r.fit)
                       /\ RunWatcher(r, originalViewportHeight - e.innerHeight)
                  ELSE /\ RunFit(r)
                       /\ UNCHANGED <<body, keyboardVisible, pendingFits, watch>>
      /\ UNCHANGED <<revision, userAgent, safeArea, readyState, originalViewportHeight,
                     originalContainerStyles, bannerVars, loadVars, preloadLinks>>

\* visualViewport 'resize'
VisualViewportResize ==
  \E e \in Environments(userAgent) :
    LET sa == safeArea IN
      /\ DomInitialized
      /\ canvas.isMobileDevice
      /\ window.hasVisualViewport
      /\ SameDevice(window, safeArea, e)
      /\ window' = e
      /\ LET r == AdjustMobileCanvasSize(revision, canvas, container, e, sa)
         IN  IF canvas.isIOS
             THEN /\ fit' = Observed(r.fit)
                  /\ RunWatcher(r, originalViewportHeight - e.vvHeight)
             ELSE /\ RunFit(r)
                  /\ UNCHANGED <<body, keyboardVisible, pendingFits, watch>>
      /\ UNCHANGED <<revision, userAgent, safeArea, readyState, originalViewportHeight,
                     originalContainerStyles, bannerVars, loadVars, preloadLinks>>

\* window 'orientationchange'
OrientationChange ==
  \E e \in Environments(userAgent) :
    LET sa == safeArea IN
      /\ DomInitialized
      /\ canvas.isMobileDevice
      /\ SameDevice(window, safeArea, e)
      /\ canvas.isIOS => pendingFits < MaxPendingFits
      /\ window' = e
      /\ RunFit(AdjustMobileCanvasSize(revision, canvas, container, e, sa))
      /\ pendingFits' = IF canvas.isIOS THEN pendingFits + 1 ELSE pendingFits
      /\ UNCHANGED <<revision, userAgent, safeArea, readyState, body, keyboardVisible, watch,
                     originalViewportHeight, originalContainerStyles,
                     bannerVars, loadVars, preloadLinks>>

\* A setTimeout(adjustMobileCanvasSize, ...) callback runs
FitTimer ==
  /\ pendingFits > 0
  /\ pendingFits' = pendingFits - 1
  /\ RunFit(AdjustMobileCanvasSize(revision, canvas, container, window, safeArea))
  /\ UNCHANGED <<envVars, readyState, body, keyboardVisible, watch,
                 originalViewportHeight, originalContainerStyles,
                 bannerVars, loadVars, preloadLinks>>

-----------------------------------------------------------------------------
(* Banner display *)

BannerTypes == {"error", "warning", "info"}

\* updateBannerVisibility that never hides the container
BannerDisplayNeverHides(children) == "block"

\* updateBannerVisibility
BannerDisplay(children) == IF Len(children) # 0 THEN "block" ELSE "none"

DivStyle(type) ==
  CASE type = "error" -> "background: red; padding: 10px;"
    [] type = "warning" -> "background: yellow; padding: 10px;"
    [] OTHER -> ""

\* A removal timer for every message that is not an error
SchedulesRemovalUnlessError(type) == type # "error"

\* Whether unityShowBanner schedules the removal of a message of this type
SchedulesRemoval(type) == type = "warning"

\* A timer callback that empties the container
RemoveEveryChild(children, id) == <<>>

\* A timer callback that removes the oldest message, whichever it is
RemoveOldestChild(children, id) ==
  IF children = <<>> THEN children ELSE Tail(children)

\* warningBanner.removeChild(div)
RemoveChild(children, id) == SelectSeq(children, LAMBDA d : d.id # id)

\* The runtime calls config.showBanner(msg, type)
UnityShowBanner ==
  \E type \in BannerTypes :
    /\ unity # "none"
    /\ nextBanner <= MaxBanners
    /\ LET div == [id |-> nextBanner, type |-> type, style |-> DivStyle(type)]
           children == Append(warningBanner.children, div)
       IN  /\ warningBanner' = [children |-> children,
                                display |-> BannerDisplay(children)]
           /\ bannerTimers' = IF SchedulesRemoval(type)
                              THEN Append(bannerTimers, nextBanner)
                              ELSE bannerTimers
    /\ nextBanner' = nextBanner + 1
    /\ UNCHANGED <<envVars, readyState, fitVars, loadVars, preloadLinks>>

\* The oldest 5 s timer fires
BannerTimeout ==
  /\ bannerTimers # <<>>
  /\ LET children == RemoveChild(warningBanner.children, Head(bannerTimers))
     IN  warningBanner' = [children |-> children, display |-> BannerDisplay(children)]
  /\ bannerTimers' = Tail(bannerTimers)
  /\ UNCHANGED <<envVars, readyState, fitVars, nextBanner, loadVars, preloadLinks>>

-----------------------------------------------------------------------------
(* Load bootstrap *)

ProgressFractions == {I(0), Num(1, 2), I(1)}

FailureMessages == {"out of memory", "unsupported browser"}

\* A loader script whose load event is delivered again and again
ScriptLoadRepeats ==
  /\ script \in {"loading", "loaded"}
  /\ script' = "loaded"
  /\ unity' = "pending"
  /\ instantiations' = instantiations + 1
  /\ UNCHANGED <<envVars, readyState, fitVars, bannerVars, loadingBar,
                 progressBarFull, alerts, preloadLinks>>

\* script.onload: createUnityInstance(canvas, config, onProgress)
ScriptLoad ==
  /\ script = "loading"
  /\ script' = "loaded"
  /\ unity' = "pending"
  /\ instantiations' = instantiations + 1
  /\ UNCHANGED <<envVars, readyState, fitVars, bannerVars, loadingBar,
                 progressBarFull, alerts, preloadLinks>>

\* The runtime reports progress
Progress ==
  \E p \in ProgressFractions :
    /\ unity = "pending"
    /\ progressBarFull' = [set |-> TRUE, px |-> JMul(I(100), p)]
    /\ UNCHANGED <<envVars, readyState, fitVars, bannerVars, loadingBar,
                   script, unity, instantiations, alerts, preloadLinks>>

\* A then callback that assigns the body's class list instead of adding to it
OnResolvedReplacesClasses(bar, b) ==
  [loadingBar |-> [bar EXCEPT !.display = "none"],
   body |-> IF revision = "scripts"
            THEN [b EXCEPT !.classes = {"unity-loaded"}]
            ELSE b,
   alerts |-> alerts]

\* .then((unityInstance) => ...)
OnResolved(bar, b) ==
  [loadingBar |-> [bar EXCEPT !.display = "none"],
   body |-> IF revision = "scripts"
            THEN [b EXCEPT !.classes = @ \cup {"unity-loaded"}]
            ELSE b,
   alerts |-> alerts]

\* .catch((message) => ...)
OnRejected(bar, b, message) ==
  [loadingBar |-> IF revision = "scripts" THEN [bar EXCEPT !.display = "none"] ELSE bar,
   body |-> b,
   alerts |-> Append(alerts, message)]

Settle(state, r) ==
  /\ unity = "pending"
  /\ unity' = state
  /\ loadingBar' = r.loadingBar
  /\ body' = r.body
  /\ alerts' = r.alerts
  /\ UNCHANGED <<envVars, readyState, canvas, container, keyboardVisible,
                 originalViewportHeight, originalContainerStyles, pendingFits, fit,
                 watch, bannerVars, progressBarFull, script, instantiations,
                 preloadLinks>>

Resolve == Settle("resolved", OnResolved(loadingBar, body))

Reject == \E message \in FailureMessages :
            Settle("rejected", OnRejected(loadingBar, body, message))

-----------------------------------------------------------------------------
(* Specifications *)

Next ==
  \/ DOMContentLoaded
  \/ Load
  \/ WindowResize
  \/ VisualViewportResize
  \/ OrientationChange
  \/ FitTimer
  \/ UnityShowBanner
  \/ BannerTimeout
  \/ ScriptLoad
  \/ Progress
  \/ Resolve
  \/ Reject

Spec == Init /\ [][Next]_vars

\* The viewport fitter alone: page events, resizes, rotations and fit timers
NextFit ==
  \/ DOMContentLoaded
  \/ Load
  \/ WindowResize
  \/ VisualViewportResize
  \/ OrientationChange
  \/ FitTimer

SpecFit == Init /\ [][NextFit]_vars

\* The desktop strategy alone
InitDesktop == Init /\ userAgent = "Desktop"

NextDesktop ==
  \/ DOMContentLoaded
  \/ Load
  \/ WindowResize

SpecDesktop == InitDesktop /\ [][NextDesktop]_vars

\* The mobile strategy alone
InitMobile == Init /\ IsMobileUA(userAgent)

SpecMobile == InitMobile /\ [][NextFit]_vars

\* The banner and the load bootstrap alone
NextPage ==
  \/ DOMContentLoaded
  \/ Load
  \/ ScriptLoad
  \/ Progress
  \/ Resolve
  \/ Reject
  \/ UnityShowBanner
  \/ BannerTimeout

SpecPage == Init /\ [][NextPage]_vars

\* The load bootstrap alone, with a runtime that shows no banner
NextLoad ==
  \/ DOMContentLoaded
  \/ Load
  \/ ScriptLoad
  \/ Progress
  \/ Resolve
  \/ Reject

SpecLoad == Init /\ [][NextLoad]_vars

\* Every sizing handler together with the runtime's load callbacks, on a
\* device with a real screen, no safe-area insets and, on mobile, a visual
\* viewport; the page opens with the full viewport
TypicalDevice ==
  /\ window.screenHeight # 0
  /\ safeArea = NoInsets
  /\ window.hasVisualViewport = IsMobileUA(userAgent)
  /\ IsMobileUA(userAgent) =>
       <<window.innerWidth, window.innerHeight>> = FullViewport /\ window.vvHeight = 800
  /\ ~IsMobileUA(userAgent) => window.innerWidth = 1600 /\ window.innerHeight = 900

InitTypical == Init /\ TypicalDevice

NextHandlers ==
  \/ DOMContentLoaded
  \/ Load
  \/ WindowResize
  \/ VisualViewportResize
  \/ OrientationChange
  \/ FitTimer
  \/ ScriptLoad
  \/ Progress
  \/ Resolve
  \/ Reject

SpecHandlers == InitTypical /\ [][NextHandlers]_vars

\* The mobile strategy with its timers on a typical device: a setTimeout
\* callback that is due is run by the event loop, whatever other events keep
\* arriving. FitTimerFairness is WF_vars(FitTimer) written out, a timer
\* callback being enabled exactly while pendingFits > 0.
InitTypicalMobile == InitTypical /\ IsMobileUA(userAgent)

FitTimerFairness == ([]<>(pendingFits = 0)) \/ ([]<><<FitTimer>>_vars)

SpecMobileTimers == InitTypicalMobile /\ [][NextFit]_vars /\ FitTimerFairness

\* The whole page on a typical device: every sizing handler, every load
\* callback and the banner, with a runtime that shows MaxBanners - 1 banners
\* fewer than the banner specification allows
InitWhole == InitFrom(MaxBanners) /\ TypicalDevice

SpecWhole == InitWhole /\ [][Next]_vars

-----------------------------------------------------------------------------
(* Properties *)

DisplayWidth == canvas.style.width.px

DisplayHeight == canvas.style.height.px

DisplaySet == canvas.style.width.set /\ canvas.style.height.set

Leq(x, y) == ~JLt(y, x) /\ ~IsNaN(x) /\ ~IsNaN(y)

\* C1: after every desktop fit the display size has the design aspect ratio
\* exactly: displayWidth * 1334 = displayHeight * 750.
DesktopAspectExact ==
  fit.strategy = "desktop" =>
    /\ DisplaySet
    /\ DisplayWidth = fit.canvasWidth /\ DisplayHeight = fit.canvasHeight
    /\ JMul(DisplayWidth, I(DesignHeight)) = JMul(DisplayHeight, I(DesignWidth))

\* C1 witness: a width-limited fit in which the minimum clamp fired
DesktopAspectWitness ==
  /\ fit.strategy = "desktop"
  /\ window.innerWidth = 200 /\ window.innerHeight = 2000
  /\ DisplayWidth = I(375)

\* C2: after every desktop fit the display width lies in [375, 750] and the
\* display height in [667, 1334].
DesktopWithinBounds ==
  fit.strategy = "desktop" =>
    /\ DisplaySet
    /\ Leq(I(375), DisplayWidth) /\ Leq(DisplayWidth, I(750))
    /\ Leq(I(667), DisplayHeight) /\ Leq(DisplayHeight, I(1334))

\* C2 witness: a window smaller than half the design size on both axes,
\* reached by a resize from a window larger than the design size
DesktopWithinBoundsWitness ==
  /\ fit.strategy = "desktop"
  /\ readyState = "complete"
  /\ window.innerWidth = 200 /\ window.innerHeight = 300
  /\ DisplayWidth = I(375) /\ DisplayHeight = I(667)

\* The scale the mobile fit is specified to use for a viewport
MobileScale(vw, vh) ==
  JMin(JDiv(I(vw), I(DesignWidth)), JDiv(I(vh), I(DesignHeight)))

ScaledDesign(vw, vh) ==
  [canvasWidth |-> JMul(I(DesignWidth), MobileScale(vw, vh)),
   canvasHeight |-> JMul(I(DesignHeight), MobileScale(vw, vh))]

\* C3: after every mobile fit the display size is the design size times
\* min(vw/750, vh/1334), for the viewport (vw, vh) the fit used.
MobileDisplayIsScaledDesign ==
  fit.strategy = "mobile" =>
    /\ DisplaySet
    /\ DisplayWidth = ScaledDesign(fit.windowWidth, fit.windowHeight).canvasWidth
    /\ DisplayHeight = ScaledDesign(fit.windowWidth, fit.windowHeight).canvasHeight

\* C3 restricted to scripts.js, which takes the ratio from the design size
MobileDisplayIsScaledDesignInScripts ==
  revision = "scripts" => MobileDisplayIsScaledDesign

\* C4: a mobile fit uses the baseline viewport if the measured height is
\* more than 150 px below the baseline height, and the live viewport
\* otherwise, whatever the fit before it did.
KeyboardDecision ==
  fit.strategy = "mobile" =>
    /\ fit.baselineHeight = canvas.initialWindowHeight
    /\ fit.baselineWidth = canvas.initialWindowWidth
    /\ IF canvas.initialWindowHeight - fit.measuredHeight > 150
       THEN /\ fit.windowWidth = canvas.initialWindowWidth
            /\ fit.windowHeight = canvas.initialWindowHeight
       ELSE /\ fit.windowWidth = fit.measuredWidth
            /\ fit.windowHeight = fit.measuredHeight

\* C4 witness: a fit at a drop of exactly 150 px uses the live viewport
\* right after a fit that had substituted the baseline
KeyboardDecisionWitness ==
  /\ fit.strategy = "mobile"
  /\ fit.previousKeyboardOpen
  /\ canvas.initialWindowHeight = 800 /\ fit.measuredHeight = 650
  /\ fit.windowHeight = 650

\* C5: once a mobile fit has run, no later step changes the baseline
\* (canvas.initialWindowWidth / canvas.initialWindowHeight).
BaselineWrittenOnce ==
  [][fit.strategy = "mobile" =>
       /\ canvas'.initialWindowHeight = canvas.initialWindowHeight
       /\ canvas'.initialWindowWidth = canvas.initialWindowWidth]_vars

\* C5 where the screen height is not 0
BaselineWrittenOnceOnRealScreen ==
  [][fit.strategy = "mobile" /\ window.screenHeight # 0 =>
       /\ canvas'.initialWindowHeight = canvas.initialWindowHeight
       /\ canvas'.initialWindowWidth = canvas.initialWindowWidth]_vars

Children == warningBanner.children

ChildIds(children) == {children[i].id : i \in 1..Len(children)}

TimerIds == {bannerTimers[i] : i \in 1..Len(bannerTimers)}

\* C6: a warning makes the container visible when unityShowBanner returns
\* and has a removal timer; when the timer fires, exactly that message is
\* removed and the container is hidden iff no other message remains.
WarningLifecycle ==
  [][/\ (nextBanner' = nextBanner + 1
          /\ warningBanner'.children[Len(warningBanner'.children)].type = "warning") =>
            /\ warningBanner'.display = "block"
            /\ nextBanner \in ChildIds(warningBanner'.children)
            /\ bannerTimers' = Append(bannerTimers, nextBanner)
     /\ Len(bannerTimers') < Len(bannerTimers) =>
            LET others == SelectSeq(Children, LAMBDA d : d.id # Head(bannerTimers))
            IN  /\ Head(bannerTimers) \in ChildIds(Children)
                /\ warningBanner'.children = others
                /\ (warningBanner'.display = "none") <=> (others = <<>>)
                /\ (warningBanner'.display = "block") <=> (others # <<>>)]_vars

\* C6 witness: a warning's timer has fired while an error message remains,
\* so the container is still shown
WarningLifecycleWitness ==
  /\ nextBanner = 3
  /\ bannerTimers = <<>>
  /\ Len(Children) = 1 /\ Children[1].type = "error"
  /\ warningBanner.display = "block"

BannerVisibleIffNonEmpty ==
  nextBanner > 1 =>
    /\ warningBanner.display \in {"block", "none"}
    /\ (warningBanner.display = "block") <=> (Len(Children) > 0)

\* C8 witness: every message was a warning and every timer has fired
BannerVisibleIffNonEmptyWitness ==
  /\ nextBanner = 3
  /\ Children = <<>>
  /\ warningBanner.display = "none"

\* A step in which a watcher listener ran, and the drop it measured
WatcherRan(heightDiff) ==
  /\ canvas.isIOS
  /\ \/ WindowResize /\ heightDiff = originalViewportHeight - window'.innerHeight
     \/ VisualViewportResize /\ heightDiff = originalViewportHeight - window'.vvHeight

\* The drops a watcher listener can measure
Drops == {originalViewportHeight - v[2] : v \in MobileViewports}

\* C9: the watcher starts hidden; it becomes visible exactly in a resize
\* that measures a drop of more than 150 px while hidden, becomes hidden
\* exactly in a resize that measures a drop of 50 px or less while visible,
\* and a drop in (50, 150] changes nothing and neither locks nor unlocks.
WatcherTransitions ==
  /\ [](~DomInitialized => ~keyboardVisible)
  /\ [][/\ (~keyboardVisible /\ keyboardVisible') <=>
            (~keyboardVisible /\ \E d \in Drops : d > 150 /\ WatcherRan(d))
        /\ (keyboardVisible /\ ~keyboardVisible') <=>
            (keyboardVisible /\ \E d \in Drops : d <= 50 /\ WatcherRan(d))
        /\ \A d \in Drops :
             (d > 50 /\ d <= 150 /\ WatcherRan(d)) =>
               /\ keyboardVisible' = keyboardVisible
               /\ body' = body
               /\ pendingFits' = pendingFits
               /\ watch'.did = "none"]_vars

\* C9 witness: the keyboard is visible and the last resize measured a drop
\* of 150 px, which neither locked nor unlocked
WatcherTransitionsWitness ==
  /\ keyboardVisible
  /\ watch = [heightDiff |-> 150, did |-> "none"]
  /\ "ios-keyboard-open" \in body.classes

\* C10: once the instantiation promise has rejected, the loading indicator
\* is hidden, the message was shown by one alert and not in the banner, the
\* page is not marked loaded and the runtime was instantiated once.
RejectionHandled ==
  unity = "rejected" =>
    /\ loadingBar.display = "none"
    /\ Len(alerts) = 1 /\ alerts[1] \in FailureMessages
    /\ warningBanner = [children |-> <<>>, display |-> ""]
    /\ "unity-loaded" \notin body.classes
    /\ instantiations = 1

\* C10 restricted to scripts.js
RejectionHandledInScripts == revision = "scripts" => RejectionHandled

\* C11: once the instantiation promise has resolved, the loading indicator
\* is hidden and the page is marked loaded; while it is pending the loading
\* indicator stays shown and the progress-bar width, once set, is 100 * p
\* percent for a reported fraction p.
ResolutionHandled ==
  /\ unity = "resolved" =>
       /\ loadingBar.display = "none"
       /\ "unity-loaded" \in body.classes
  /\ unity = "pending" =>
       /\ loadingBar.display = "block"
       /\ progressBarFull.set =>
            \E p \in ProgressFractions : progressBarFull.px = JMul(I(100), p)

\* C11 restricted to scripts.js
ResolutionHandledInScripts == revision = "scripts" => ResolutionHandled

\* The promise resolved after progress reached one half
ResolutionHandledWitness ==
  /\ unity = "resolved"
  /\ progressBarFull = [set |-> TRUE, px |-> I(50)]

\* The sizing strategy the user agent calls for
StrategyOf(ua) == IF ua \in {"iPhone", "Android"} THEN "mobile" ELSE "desktop"

\* C12: InitializeDOM classifies the device from the user agent, a user
\* agent naming none of iPhone/iPad/iPod/Android being a desktop, and no
\* later handler changes the classification; every fit a handler runs is the
\* fit of that one strategy, and a desktop page has no mobile timer or
\* keyboard watcher at work.
DeviceClassFixed ==
  /\ [](DomInitialized =>
          /\ canvas.isMobileDevice = (StrategyOf(userAgent) = "mobile")
          /\ fit.strategy = StrategyOf(userAgent)
          /\ userAgent = "Desktop" =>
               /\ ~canvas.isIOS /\ ~canvas.isAndroid
               /\ pendingFits = 0 /\ ~keyboardVisible /\ watch.did = "none")
  /\ [][DomInitialized =>
          /\ canvas'.isMobileDevice = canvas.isMobileDevice
          /\ canvas'.isIOS = canvas.isIOS
          /\ canvas'.isAndroid = canvas.isAndroid
          /\ fit'.strategy = fit.strategy]_vars

\* C12 witness: a desktop page was resized after the runtime had resolved
DeviceClassFixedWitness ==
  /\ userAgent = "Desktop"
  /\ unity = "resolved"
  /\ fit.strategy = "desktop"
  /\ fit.windowWidth = 375

\* The backing-scale factor of the device class: 2.0 on iOS, 3.4 on Android
ClassFactor == IF userAgent = "iPhone" THEN I(2) ELSE Num(17, 5)

\* C13: on a mobile device the backing resolution is the display size times
\* the device-class factor on both axes after every fit; on a desktop device
\* the backing resolution stays at 750 x 1334.
BackingResolution ==
  DomInitialized =>
    IF userAgent = "Desktop"
    THEN canvas.width = 750 /\ canvas.height = 1334
    ELSE /\ I(canvas.width) = JMul(DisplayWidth, ClassFactor)
         /\ I(canvas.height) = JMul(DisplayHeight, ClassFactor)

\* C13 with the backing resolution taken as the integer part of the product,
\* in scripts.js
BackingResolutionTruncatedInScripts ==
  (DomInitialized /\ revision = "scripts") =>
    IF userAgent = "Desktop"
    THEN canvas.width = 750 /\ canvas.height = 1334
    ELSE /\ canvas.width = Trunc(JMul(DisplayWidth, ClassFactor))
         /\ canvas.height = Trunc(JMul(DisplayHeight, ClassFactor))

\* The reference scale of the desktop fit: max(1/2, min(1, ww/750, wh/1334))
DesktopScale(ww, wh) ==
  LET fill == JMin(I(1), JMin(Num(ww, DesignWidth), Num(wh, DesignHeight)))
  IN  IF JLt(fill, Num(1, 2)) THEN Num(1, 2) ELSE fill

\* C14: for every window size the desktop fit is the design size times
\* max(1/2, min(1, ww/750, wh/1334)) on both axes.
DesktopFitIsReference ==
  fit.strategy = "desktop" =>
    LET scale == DesktopScale(fit.windowWidth, fit.windowHeight)
    IN  /\ fit.canvasWidth = JMul(I(DesignWidth), scale)
        /\ fit.canvasHeight = JMul(I(DesignHeight), scale)
        /\ DisplayWidth = fit.canvasWidth /\ DisplayHeight = fit.canvasHeight

\* C14 witness: the window 1600 x 900 is height-limited and fits as
\* 900 * 750 / 1334 by 900 with no clamp firing
DesktopFitIsReferenceWitness ==
  /\ fit.strategy = "desktop"
  /\ fit.windowWidth = 1600 /\ fit.windowHeight = 900
  /\ DisplayHeight = I(900)
  /\ DisplayWidth = Num(900 * 750, 1334)

\* C15: after a lock followed by an unlock the container's position, top,
\* left, transform, width, height and overflow are what they were when the
\* watcher was installed, and body and document scroll again.
ContainerRoundTrip ==
  watch.did = "unlock" =>
    /\ container.position = originalContainerStyles.position
    /\ container.top = originalContainerStyles.top
    /\ container.left = originalContainerStyles.left
    /\ container.transform = originalContainerStyles.transform
    /\ container.height = originalContainerStyles.height
    /\ container.width = NoStyle.width
    /\ container.overflow = NoStyle.overflow
    /\ body.overflow = "" /\ body.htmlOverflow = ""

\* What an unlock leaves behind: the full-viewport layout of a mobile fit
\* with the transform cleared, and scrolling re-enabled
UnlockLeavesMobileLayout ==
  watch.did = "unlock" =>
    /\ container.position = "fixed" /\ container.top = "0" /\ container.left = "0"
    /\ container.transform = "none"
    /\ container.width = "100vw" /\ container.height = "100vh"
    /\ container.overflow = "hidden"
    /\ body.overflow = "" /\ body.htmlOverflow = ""
    /\ "ios-keyboard-open" \notin body.classes

\* C16: while the watcher has the keyboard visible, through every event and
\* fit, the container is fixed at the top-left with the height of the
\* pre-keyboard baseline and page scrolling is suppressed.
LockedWhileKeyboardVisible ==
  keyboardVisible =>
    /\ container.position = "fixed" /\ container.top = "0" /\ container.left = "0"
    /\ container.height = Px(originalViewportHeight)
    /\ body.overflow = "hidden" /\ body.htmlOverflow = "hidden"

\* C16 without the container height
PinnedWhileKeyboardVisible ==
  keyboardVisible =>
    /\ container.position = "fixed" /\ container.top = "0" /\ container.left = "0"
    /\ container.height \in {Px(originalViewportHeight), "100vh"}
    /\ body.overflow = "hidden" /\ body.htmlOverflow = "hidden"

\* A step in which a scheduled fit ran
TimerRan == pendingFits' = pendingFits - 1

\* The viewport a fit run now would measure
LiveViewport == MeasureViewport(canvas, window, safeArea)

OrientationChangeFits ==
  /\ [][/\ OrientationChange =>
             /\ fit'.strategy = "mobile"
             /\ fit'.measuredWidth =
                  MeasureViewport(canvas, window', safeArea).windowWidth
             /\ fit'.measuredHeight =
                  MeasureViewport(canvas, window', safeArea).windowHeight
             /\ userAgent = "iPhone" => pendingFits' = pendingFits + 1
             /\ userAgent = "Android" => pendingFits' = pendingFits
        /\ pendingFits' < pendingFits => FitTimer]_vars
  /\ ([]<><<FitTimer>>_vars) \/ <>[](pendingFits = 0)

\* C18 restricted to scripts.js
OrientationChangeFitsInScripts ==
  /\ [][revision = "scripts" =>
          /\ OrientationChange =>
               /\ fit'.strategy = "mobile"
               /\ fit'.measuredWidth =
                    MeasureViewport(canvas, window', safeArea).windowWidth
               /\ fit'.measuredHeight =
                    MeasureViewport(canvas, window', safeArea).windowHeight
               /\ userAgent = "iPhone" => pendingFits' = pendingFits + 1
               /\ userAgent = "Android" => pendingFits' = pendingFits
          /\ pendingFits' < pendingFits => FitTimer]_vars
  /\ ([]<><<FitTimer>>_vars) \/ <>[](pendingFits = 0)

\* The latest fit measured the first-captured viewport turned by 90 degrees
Rotated ==
  /\ fit.strategy = "mobile"
  /\ fit.baselineWidth # fit.baselineHeight
  /\ fit.measuredWidth = fit.baselineHeight
  /\ fit.measuredHeight = fit.baselineWidth

\* C19: after a mobile fit of a rotated viewport the display size is the
\* aspect-preserving fit of that viewport and exceeds it on neither axis.
RotationFitsViewport ==
  Rotated =>
    LET size == ScaledDesign(fit.measuredWidth, fit.measuredHeight)
    IN  /\ DisplayWidth = size.canvasWidth
        /\ DisplayHeight = size.canvasHeight
        /\ Leq(DisplayWidth, I(fit.measuredWidth))
        /\ Leq(DisplayHeight, I(fit.measuredHeight))

\* C19 for a rotation that makes the viewport taller, in scripts.js
RotationToPortraitFitsViewportInScripts ==
  (Rotated /\ revision = "scripts" /\ fit.measuredHeight > fit.baselineHeight) =>
    LET size == ScaledDesign(fit.measuredWidth, fit.measuredHeight)
    IN  /\ DisplayWidth = size.canvasWidth
        /\ DisplayHeight = size.canvasHeight
        /\ Leq(DisplayWidth, I(fit.measuredWidth))
        /\ Leq(DisplayHeight, I(fit.measuredHeight))

\* A page opened in landscape and turned to portrait
RotationToPortraitSeen ==
  Rotated /\ revision = "scripts" /\ fit.measuredHeight > fit.baselineHeight

\* The display size has the design aspect ratio
DisplayHasDesignRatio ==
  JMul(DisplayWidth, I(DesignHeight)) = JMul(DisplayHeight, I(DesignWidth))

\* C20: after every mobile fit the display size has the design aspect
\* ratio, displayWidth * 1334 = displayHeight * 750; in part_000, which
\* reads the ratio back from canvas.width / canvas.height, the backing size
\* a fit will read keeps the ratio 750 : 1334.
MobileAspectKept ==
  /\ fit.strategy = "mobile" => DisplaySet /\ DisplayHasDesignRatio
  /\ (revision = "part_000" /\ IsMobileUA(userAgent) /\ DomInitialized) =>
       canvas.width * DesignHeight = canvas.height * DesignWidth

\* C20 restricted to scripts.js
MobileAspectKeptInScripts == revision = "scripts" => MobileAspectKept

\* The display ratio is already off after a second fit of an unchanged
\* viewport in part_000
MobileAspectDriftSeen ==
  /\ revision = "part_000"
  /\ fit.strategy = "mobile"
  /\ fit.measuredWidth = 400 /\ fit.measuredHeight = 800
  /\ fit.baselineHeight = 800
  /\ ~DisplayHasDesignRatio

\* C21: the runtime is instantiated at most once, in the loader script's
\* load event and after InitializeDOM has set up the canvas and the device
\* class; no other event (resize, rotation, timer, banner, runtime callback)
\* instantiates it.
InstantiatedOnce ==
  /\ [](/\ instantiations <= 1
        /\ instantiations = 1 =>
             /\ script = "loaded"
             /\ DomInitialized
             /\ canvas.originalWidth = DesignWidth
             /\ canvas.originalHeight = DesignHeight
             /\ canvas.isMobileDevice = (StrategyOf(userAgent) = "mobile")
             /\ fit.strategy = StrategyOf(userAgent))
  /\ [][instantiations' # instantiations =>
          /\ instantiations = 0 /\ instantiations' = 1
          /\ script = "loading" /\ script' = "loaded"
          /\ DomInitialized
          /\ UNCHANGED <<fitVars, bannerVars, readyState>>]_vars

\* C21 witness: after the one instantiation a banner was shown, its timer
\* fired, the keyboard closed and the delayed fit ran
InstantiatedOnceWitness ==
  /\ instantiations = 1
  /\ unity = "resolved"
  /\ warningBanner = [children |-> <<>>, display |-> "none"]
  /\ nextBanner > MaxBanners
  /\ watch.did = "unlock"
  /\ pendingFits = 0

\* A step in which a removal timer fired
BannerTimerFired ==
  bannerTimers # <<>> /\ bannerTimers' = Tail(bannerTimers)

\* The messages of the container that are warnings
WarningIds == {Children[i].id : i \in {j \in 1..Len(Children) : Children[j].type = "warning"}}

\* C22: with several messages outstanding, a removal timer removes its own
\* message and nothing else, once; a message leaves the container only that
\* way, so the container holds the messages appended less those whose timer
\* fired; and the container is hidden only by the removal of its last
\* message.
TimersRemoveOwnMessage ==
  /\ [](/\ Cardinality(ChildIds(Children)) = Len(Children)
        /\ Cardinality(TimerIds) = Len(bannerTimers)
        /\ TimerIds = WarningIds
        /\ warningBanner.display = "none" => Children = <<>>)
  /\ [][/\ BannerTimerFired =>
             /\ Head(bannerTimers) \in ChildIds(Children)
             /\ warningBanner'.children =
                  SelectSeq(Children, LAMBDA d : d.id # Head(bannerTimers))
             /\ Len(warningBanner'.children) = Len(Children) - 1
        /\ Len(warningBanner'.children) < Len(Children) => BannerTimerFired
        /\ (nextBanner' # nextBanner) =>
             /\ Len(warningBanner'.children) = Len(Children) + 1
             /\ SubSeq(warningBanner'.children, 1, Len(Children)) = Children
        /\ (warningBanner'.display = "none" /\ warningBanner.display # "none") =>
             (BannerTimerFired /\ Len(Children) = 1)]_vars

\* C22 witness: of two warnings with an error between them the first has
\* been removed by its timer, the second is still waiting for its own
TimersRemoveOwnMessageWitness ==
  /\ nextBanner = 4
  /\ Len(Children) = 2
  /\ Children[1].type = "error" /\ Children[1].id = 2
  /\ Children[2].type = "warning" /\ Children[2].id = 3
  /\ bannerTimers = <<3>>
  /\ warningBanner.display = "block"

\* The body is marked for the keyboard and neither it nor the document scrolls
BodyLocked ==
  /\ "ios-keyboard-open" \in body.classes
  /\ body.overflow = "hidden" /\ body.htmlOverflow = "hidden"

\* The body carries no keyboard marker and scrolling is not suppressed
BodyFree ==
  /\ "ios-keyboard-open" \notin body.classes
  /\ body.overflow = "" /\ body.htmlOverflow = ""

\* C23: on an iOS device the body carries the 'ios-keyboard-open' marker
\* and has scrolling suppressed exactly while the watcher has the keyboard
\* visible, and marker and scrolling change only in the watcher's lock and
\* unlock, never in a fit, a banner operation or a runtime callback.
BodyFollowsWatcher ==
  /\ [](userAgent = "iPhone" =>
          /\ keyboardVisible => BodyLocked
          /\ ~keyboardVisible => BodyFree)
  /\ [][userAgent = "iPhone" =>
          /\ (BodyLocked' # BodyLocked \/ BodyFree' # BodyFree
              \/ body.overflow' # body.overflow
              \/ body.htmlOverflow' # body.htmlOverflow) =>
               /\ keyboardVisible' # keyboardVisible
               /\ watch'.did \in {"lock", "unlock"}
               /\ UNCHANGED <<bannerVars, loadVars>>
          /\ (pendingFits' < pendingFits \/ bannerVars' # bannerVars
              \/ loadVars' # loadVars) =>
               /\ BodyLocked' = BodyLocked
               /\ BodyFree' = BodyFree]_vars

\* C23 witness: with the keyboard visible the runtime resolved and showed a
\* banner, and a further resize ran a fit without unlocking
BodyFollowsWatcherWitness ==
  /\ userAgent = "iPhone"
  /\ keyboardVisible
  /\ BodyLocked
  /\ "unity-loaded" \in body.classes
  /\ Children # <<>>
  /\ watch = [heightDiff |-> 150, did |-> "none"]

\* The canvas a desktop page has after one fit of the window (ww, wh) and
\* nothing before it
FirstDesktopFit(ww, wh) ==
  ApplyCanvasDimensions(revision, InitialCanvas,
                        DesktopSize(InitialCanvas, ww, wh))

\* C24: after any sequence of desktop resizes the canvas (display size,
\* centering styles, backing resolution) is what a first fit of the latest
\* window size gives, and a further resize reporting the same window size
\* leaves canvas and container as they are.
DesktopFitHistoryFree ==
  fit.strategy = "desktop" =>
    LET again == AdjustDesktopCanvasSize(revision, canvas, container, window)
    IN  /\ fit.windowWidth = window.innerWidth
        /\ fit.windowHeight = window.innerHeight
        /\ canvas = FirstDesktopFit(window.innerWidth, window.innerHeight)
        /\ again.canvas = canvas
        /\ again.container = container
        /\ canvas.width = DesignWidth /\ canvas.height = DesignHeight

\* C24 witness: a fitted window of 1600 x 900 after the load event, a state
\* that resizes reach from every other window size
DesktopFitHistoryFreeWitness ==
  /\ fit.strategy = "desktop"
  /\ readyState = "complete"
  /\ window.innerWidth = 1600 /\ window.innerHeight = 900
  /\ DisplayHeight = I(900)
  /\ canvas.style.position = "absolute"

====
